---- MODULE Spec2Model ----
(***************************************************************************)
(* A model of src/code/main.cpp: the BMPImage decoder (BMPImage::load) and  *)
(* the viewer's window procedure (loadCurrentImage, WindowProc).            *)
(*                                                                         *)
(* A stream is a file: either one that cannot be opened, or a finite       *)
(* sequence of bytes.  The two packed header structs are kept as the raw   *)
(* bytes file.read() copies into them, and their fields are decoded        *)
(* little-endian on use, so that a short read leaves the tail of a struct  *)
(* as it was before the call.                                              *)
(***************************************************************************)
EXTENDS Integers, Sequences, FiniteSets, TLC

VARIABLES
  fileHeader,         \* BMPImage::fileHeader, its 14 bytes
  infoHeader,         \* BMPImage::infoHeader, its 40 bytes
  pixels,             \* BMPImage::pixels
  call,               \* the last call of load: its file, its result, its steps
  bmpFiles,           \* the global bmpFiles
  currentImageIndex,  \* the global currentImageIndex
  hdcMem,             \* the global hdcMem, 0 for nullptr
  hBitmap,            \* the global hBitmap, 0 for nullptr
  gdi,                \* the system's GDI handles
  win                 \* the window: "new", "open", "quit" or "destroyed"

vars == <<fileHeader, infoHeader, pixels, call,
          bmpFiles, currentImageIndex, hdcMem, hBitmap, gdi, win>>
imageVars == <<fileHeader, infoHeader, pixels, call>>
viewVars == <<bmpFiles, currentImageIndex, hdcMem, hBitmap, gdi, win>>

----------------------------------------------------------------------------
(* Fixed-width integers.  TLC's integers are exactly the int32_t range, so  *)
(* the wrapped product is computed on the four bytes of each operand.       *)

IntMax == 2147483647

Abs(n) == IF n < 0 THEN -n ELSE n

U16Bytes(n) == <<n % 256, (n \div 256) % 256>>

U32Bytes(n) ==
  <<n % 256, (n \div 256) % 256, (n \div 65536) % 256, (n \div 16777216) % 256>>

\* two's complement, little-endian
I32Bytes(n) ==
  IF n >= 0 THEN U32Bytes(n)
  ELSE LET b == U32Bytes((n + IntMax) + 1) IN [b EXCEPT ![4] = b[4] + 128]

U16(b) == b[1] + 256 * b[2]

U32(b) == b[1] + 256 * b[2] + 65536 * b[3] + 16777216 * b[4]

I32(b) ==
  b[1] + 256 * b[2] + 65536 * b[3]
    + 16777216 * (IF b[4] >= 128 THEN b[4] - 256 ELSE b[4])

\* the low 32 bits of the product of two 32-bit operands
MulBytes(a, b) ==
  LET c1 == a[1] * b[1]
      c2 == a[1] * b[2] + a[2] * b[1] + (c1 \div 256)
      c3 == a[1] * b[3] + a[2] * b[2] + a[3] * b[1] + (c2 \div 256)
      c4 == a[1] * b[4] + a[2] * b[3] + a[3] * b[2] + a[4] * b[1] + (c3 \div 256)
  IN  <<c1 % 256, c2 % 256, c3 % 256, c4 % 256>>

\* int * int as the processor computes it (imul): the product modulo 2^32
Mul32(a, b) == I32(MulBytes(I32Bytes(a), I32Bytes(b)))

\* the mathematical product a * b is not an int32_t (operands above INT_MIN)
MulOverflows(a, b) ==
  LET pa == Abs(a)
      pb == Abs(b)
      q  == IntMax \div pb
  IN  /\ a # 0
      /\ b # 0
      /\ pa > q
      /\ ~ ( /\ (a < 0) # (b < 0)
             /\ IntMax % pb = pb - 1
             /\ pa = q + 1 )

\* int + int modulo 2^32
Add32(a, b) ==
  IF a > 0 /\ b > 0 /\ a > IntMax - b
    THEN ((a - IntMax) - 1) + ((b - IntMax) - 1)
  ELSE IF a < 0 /\ b < 0 /\ a < ((-IntMax) - 1) - b
    THEN ((a + IntMax) + 1) + ((b + IntMax) + 1)
  ELSE a + b

Min(a, b) == IF a < b THEN a ELSE b

----------------------------------------------------------------------------
(* The structs.                                                            *)

MaxHandle == 3
MaxGap == 3
MaxFiles == 2

FileHeaderSize == 14
InfoHeaderSize == 40
BM == 19778

Field(buf, off, n) == SubSeq(buf, off + 1, off + n)

\* BMPFileHeader{}: fileType 0x4D42, everything else 0
DefaultFileHeader == U16Bytes(BM) \o [i \in 1..12 |-> 0]

\* BMPInfoHeader{}: planes 1, everything else 0
DefaultInfoHeader ==
  [i \in 1..12 |-> 0] \o U16Bytes(1) \o [i \in 1..26 |-> 0]

fileType(fh)    == U16(Field(fh, 0, 2))
offsetData(fh)  == U32(Field(fh, 10, 4))
width(ih)       == I32(Field(ih, 4, 4))
height(ih)      == I32(Field(ih, 8, 4))
bitCount(ih)    == U16(Field(ih, 14, 2))
compression(ih) == U32(Field(ih, 16, 4))

\* BMPColor{}: value-initialised by vector::resize
DefaultColor == [blue |-> 0, green |-> 0, red |-> 0, alpha |-> 255]

getWidth  == width(infoHeader)
getHeight == height(infoHeader)
getPixels == pixels

----------------------------------------------------------------------------
(* std::ifstream, as far as load uses it.  A stream state is its read       *)
(* position and whether it is still good.                                  *)

OpenStream == [pos |-> 0, ok |-> TRUE]

\* file.read(buf, n): on a failed stream nothing is extracted; otherwise up
\* to n bytes are copied to the front of buf, and a short count sets failbit.
StreamRead(st, data, buf, n) ==
  IF ~st.ok THEN [st |-> st, buf |-> buf, got |-> 0]
  ELSE LET avail == IF st.pos < Len(data) THEN Len(data) - st.pos ELSE 0
           got   == Min(n, avail)
       IN  [st  |-> [pos |-> st.pos + got, ok |-> got = n],
            buf |-> [i \in 1..Len(buf) |->
                       IF i <= got THEN data[st.pos + i] ELSE buf[i]],
            got |-> got]

\* file.seekg(off, beg): no effect on a failed stream; a file may be
\* positioned past its end.
StreamSeek(st, off) == IF st.ok THEN [st EXCEPT !.pos = off] ELSE st

----------------------------------------------------------------------------
(* BMPImage::load                                                          *)

SignatureOK(fh) == fileType(fh) = BM

FormatOKBitCountOnly(ih) == bitCount(ih) = 24
FormatOK(ih) == ~ (bitCount(ih) # 24 \/ compression(ih) # 0)

\* int rowSize = ((infoHeader.width * 3 + 3) & (~3))
RowSizeUnpadded(w) == Mul32(w, 3)
RowSize(w) ==
  LET v == Add32(Mul32(w, 3), 3) IN v - (v % 4)

\* the loop header: the k-th iteration (k = 0 first) has y = abs(height)-1-k
RowOfTopDown(absH, k) == k
RowOf(absH, k) == (absH - 1) - k

\* pixels[y * infoHeader.width + x], as a 0-based index
PixelIndex(y, w, x) == y * w + x

ColorRGB(row, x) ==
  [blue |-> row[x * 3 + 2 + 1], green |-> row[x * 3 + 1 + 1],
   red |-> row[x * 3 + 1], alpha |-> 255]
Color(row, x) ==
  [blue |-> row[x * 3 + 1], green |-> row[x * 3 + 1 + 1],
   red |-> row[x * 3 + 2 + 1], alpha |-> 255]

\* pixels.resize(n), 0 <= n
Resize(px, n) ==
  [i \in 1..n |-> IF i <= Len(px) THEN px[i] ELSE DefaultColor]

\* the inner loop over x of one row
StoreRow(px, row, y, w) ==
  IF w <= 0 THEN px
  ELSE [i \in 1..Len(px) |->
          IF \E x \in 0..(w - 1) : PixelIndex(y, w, x) = i - 1
            THEN Color(row, CHOOSE x \in 0..(w - 1) : PixelIndex(y, w, x) = i - 1)
            ELSE px[i]]

\* What a call did, kept beside its result: the number of read calls, the
\* bytes they extracted, whether seekg and resize were reached, and the row
\* buffer after each read of the row loop.
NoTrace ==
  [reads |-> 0, got |-> 0, seeked |-> FALSE, resized |-> FALSE, rows |-> <<>>]

Outcome(fh, ih, px, ret, tr) ==
  [fileHeader |-> fh, infoHeader |-> ih, pixels |-> px, ret |-> ret, tr |-> tr]

\* the loop over the stored rows, from iteration k on
RECURSIVE ReadRows(_, _, _, _, _, _, _, _, _)
ReadRows(fh, ih, px, st, data, row, k, tr, absH) ==
  IF k >= absH THEN Outcome(fh, ih, px, "true", tr)
  ELSE LET r == StreamRead(st, data, row, Len(row))
       IN  ReadRows(fh, ih, StoreRow(px, r.buf, RowOf(absH, k), width(ih)),
                    r.st, data, r.buf, k + 1,
                    [tr EXCEPT !.reads = @ + 1, !.got = @ + r.got,
                               !.rows = Append(@, r.buf)],
                    absH)

\* from the seek on (no header of the model has height INT_MIN, whose abs
\* is undefined).  resize and the row buffer throw std::length_error for a
\* negative count ("throw").  ub is what a signed overflow does in this build:
\* "wrap" (the product modulo 2^32) or "trap" (the process is terminated).
\* A write outside the grid terminates the process ("crash"): with an
\* overflowed product and a row loop that writes, at least 2^31 pixels are
\* written outside a grid of fewer than 2^31 entries.
LoadPixels(fh, ih, px, st, data, tr, ub) ==
  LET st3   == StreamSeek(st, offsetData(fh))
      tr3   == [tr EXCEPT !.seeked = TRUE]
      w     == width(ih)
      absH  == Abs(height(ih))
      ovf   == MulOverflows(w, absH)
      n     == Mul32(w, absH)
      ovf3  == MulOverflows(w, 3) \/ (Mul32(w, 3) > IntMax - 3)
      rowSize == RowSize(w)
  IN  IF ovf /\ ub = "trap" THEN Outcome(fh, ih, px, "crash", tr3)
      ELSE IF n < 0 THEN Outcome(fh, ih, px, "throw", tr3)
      ELSE LET px4 == Resize(px, n)
               tr4 == [tr3 EXCEPT !.resized = TRUE]
           IN  IF ovf3 /\ ub = "trap" THEN Outcome(fh, ih, px4, "crash", tr4)
               ELSE IF rowSize < 0 THEN Outcome(fh, ih, px4, "throw", tr4)
               ELSE IF ovf /\ w > 0 /\ absH > 0
                      THEN Outcome(fh, ih, px4, "crash", tr4)
               ELSE ReadRows(fh, ih, px4, st3, data,
                             [i \in 1..rowSize |-> 0], 0, tr4, absH)

Load(img, S, ub) ==
  IF ~S.openable
    THEN Outcome(img.fileHeader, img.infoHeader, img.pixels, "false", NoTrace)
  ELSE
    LET r1  == StreamRead(OpenStream, S.bytes, img.fileHeader, FileHeaderSize)
        tr1 == [NoTrace EXCEPT !.reads = 1, !.got = r1.got]
    IN  IF ~SignatureOK(r1.buf)
          THEN Outcome(r1.buf, img.infoHeader, img.pixels, "false", tr1)
        ELSE
          LET r2  == StreamRead(r1.st, S.bytes, img.infoHeader, InfoHeaderSize)
              tr2 == [tr1 EXCEPT !.reads = 2, !.got = @ + r2.got]
          IN  IF ~FormatOK(r2.buf)
                THEN Outcome(r1.buf, r2.buf, img.pixels, "false", tr2)
              ELSE LoadPixels(r1.buf, r2.buf, img.pixels, r2.st, S.bytes, tr2, ub)

\* BMPImage() = default
FreshImage ==
  [fileHeader |-> DefaultFileHeader, infoHeader |-> DefaultInfoHeader,
   pixels |-> <<>>]

----------------------------------------------------------------------------
(* The files the model loads.  A file is laid out as the format says: the   *)
(* 14 + 40 header bytes, whatever lies between them and offsetData, then    *)
(* the stored rows, each padded to a multiple of four bytes.  Every stored  *)
(* sample has its own value; padding is 170 and the gap is 238.             *)

Header(sig, off, w, h, bc, comp) ==
  sig \o U32Bytes(0) \o U16Bytes(0) \o U16Bytes(0) \o U32Bytes(off)
      \o U32Bytes(40) \o I32Bytes(w) \o I32Bytes(h) \o U16Bytes(1)
      \o U16Bytes(bc) \o U32Bytes(comp) \o [i \in 1..20 |-> 0]

PaddedLen(w) == 4 * ((3 * w + 3) \div 4)

StoredRow(w, k) ==
  [i \in 1..PaddedLen(w) |-> IF i <= 3 * w THEN 16 + 40 * k + i ELSE 170]

RECURSIVE StoredRows(_, _, _)
StoredRows(w, n, k) ==
  IF k >= n THEN <<>> ELSE StoredRow(w, k) \o StoredRows(w, n, k + 1)

Body(off, w, h) ==
  [i \in 1..(IF off > 54 THEN off - 54 ELSE 0) |-> 238]
    \o (IF w >= 0 /\ w <= 8 /\ Abs(h) <= 8 THEN StoredRows(w, Abs(h), 0) ELSE <<>>)

Take(s, n) == SubSeq(s, 1, Min(n, Len(s)))

File(bytes) == [openable |-> TRUE, bytes |-> bytes]

Whole(sig, off, w, h, bc, comp) ==
  File(Header(sig, off, w, h, bc, comp) \o Body(off, w, h))

Cut(f, n) == File(Take(f.bytes, n))

NoFile == [openable |-> FALSE, bytes |-> <<>>]

SigBM == <<66, 77>>

Dims == {<<1, 1>>, <<2, 2>>, <<2, -2>>, <<0, 1>>}

GoodFiles ==
  {Whole(SigBM, 54, d[1], d[2], 24, 0) : d \in Dims}
    \cup {Whole(SigBM, 54 + MaxGap, 3, 2, 24, 0),
          Whole(SigBM, 54 + MaxGap, 5, 2, 24, 0)}

CutFiles ==
  {Cut(Whole(SigBM, 54, 2, 2, 24, 0), n) : n \in {0, 1, 14, 30, 54, 62}}

BadSignatureFiles ==
  {Whole(<<66, 88>>, 54, 2, 2, 24, 0), File(<<88>>)}

BadFormatFiles ==
  {Whole(SigBM, 54, 5, 7, 8, 0), Whole(SigBM, 54, 5, 7, 24, 1),
   Cut(Whole(SigBM, 54, 3, 1, 8, 0), 30)}

OddFiles ==
  {Whole(SigBM, 54, -1, 1, 24, 0),
   Whole(SigBM, 54, -1431655765, 3, 24, 0),
   Whole(SigBM, 54, 65536, 65536, 24, 0),
   Whole(SigBM, 100, 2, 2, 24, 0)}

Streams ==
  GoodFiles \cup CutFiles \cup BadSignatureFiles \cup BadFormatFiles
    \cup OddFiles \cup {NoFile}

Overflow == {"wrap", "trap"}

----------------------------------------------------------------------------
(* The decoder on its own: any sequence of load calls on one instance.      *)

Image == [fileHeader |-> fileHeader, infoHeader |-> infoHeader, pixels |-> pixels]

NoCall ==
  [S |-> NoFile, ub |-> "wrap", ret |-> "none", tr |-> NoTrace]

\* GDI as the viewer uses it: the handles that are live, what each handle
\* value last named, and the calls of the last handler that were given a
\* handle that is not a live object of the right kind.
NoObject == [kind |-> "none", w |-> 0, h |-> 0, sel |-> 0]

NoGdi == [live |-> {}, obj |-> [i \in 1..MaxHandle |-> NoObject], bad |-> {}]

ViewInit ==
  /\ bmpFiles = <<>>
  /\ currentImageIndex = 0
  /\ hdcMem = 0
  /\ hBitmap = 0
  /\ gdi = NoGdi
  /\ win = "new"

Init ==
  /\ fileHeader = FreshImage.fileHeader
  /\ infoHeader = FreshImage.infoHeader
  /\ pixels = FreshImage.pixels
  /\ call = NoCall
  /\ ViewInit

\* image.load(S); a crashed process makes no further call
DoLoad(S, ub) ==
  /\ call.ret # "crash"
  /\ \E out \in {Load(Image, S, ub)} :
      /\ fileHeader' = out.fileHeader
      /\ infoHeader' = out.infoHeader
      /\ pixels' = out.pixels
      /\ call' = [S |-> S, ub |-> ub, ret |-> out.ret, tr |-> out.tr]

LoadCall ==
  /\ \E S \in Streams, ub \in Overflow : DoLoad(S, ub)
  /\ UNCHANGED viewVars

Next == LoadCall

Spec == Init /\ [][Next]_vars

----------------------------------------------------------------------------
(* The viewer: WindowProc and loadCurrentImage.  A handle is a number in    *)
(* 1..MaxHandle, 0 is nullptr; the system may hand a deleted handle's value *)
(* out again.                                                              *)

ViewFiles ==
  {Whole(SigBM, 54, 1, 1, 24, 0), Whole(SigBM, 54, 2, 2, 24, 0),
   Whole(SigBM, 54, 5, 7, 8, 0), Cut(Whole(SigBM, 54, 2, 2, 24, 0), 0)}

Directories ==
  UNION {[1..n -> ViewFiles] : n \in 0..MaxFiles}

IsLive(g, hnd, kind) == hnd \in g.live /\ g.obj[hnd].kind = kind

\* DeleteDC(hnd) / DeleteObject(hnd)
Delete(g, hnd, kind, name) ==
  IF IsLive(g, hnd, kind) THEN [g EXCEPT !.live = @ \ {hnd}]
  ELSE [g EXCEPT !.bad = @ \cup {name}]

\* if (hdcMem) DeleteDC(hdcMem); if (hBitmap) DeleteObject(hBitmap);
DeleteBoth(g, dc, bmp) ==
  LET g1 == IF dc # 0 THEN Delete(g, dc, "dc", "DeleteDC") ELSE g
  IN  IF bmp # 0 THEN Delete(g1, bmp, "bitmap", "DeleteObject") ELSE g1

\* the same two statements in WM_DESTROY, the bitmap first
DeleteBothDestroy(g, dc, bmp) ==
  LET g1 == IF bmp # 0 THEN Delete(g, bmp, "bitmap", "DeleteObject") ELSE g
  IN  IF dc # 0 THEN Delete(g1, dc, "dc", "DeleteDC") ELSE g1

\* loadCurrentImage(hwnd); the files of the viewer make no overflow
LoadCurrentImage(files, idx) ==
  LET g1 == DeleteBoth([gdi EXCEPT !.bad = {}], hdcMem, hBitmap)
  IN  \E out \in {Load(Image, files[idx + 1], "wrap")} :
        /\ fileHeader' = out.fileHeader
        /\ infoHeader' = out.infoHeader
        /\ pixels' = out.pixels
        /\ call' = [S |-> files[idx + 1], ub |-> "wrap", ret |-> out.ret,
                    tr |-> out.tr]
        /\ IF out.ret # "true"
             THEN /\ gdi' = g1
                  /\ UNCHANGED <<hdcMem, hBitmap>>
             ELSE \E d \in (1..MaxHandle) \ g1.live :
                  \E b \in ((1..MaxHandle) \ g1.live) \ {d} :
                    /\ hdcMem' = d
                    /\ hBitmap' = b
                    /\ gdi' = [g1 EXCEPT
                         !.live = @ \cup {d, b},
                         !.obj = [@ EXCEPT
                            ![d] = [kind |-> "dc", w |-> 0, h |-> 0, sel |-> b],
                            ![b] = [kind |-> "bitmap", w |-> width(out.infoHeader),
                                    h |-> height(out.infoHeader), sel |-> 0]]]

WmCreate ==
  /\ win = "new"
  /\ \E dir \in Directories :
       /\ bmpFiles' = dir
       /\ currentImageIndex' = 0
       /\ IF Len(dir) = 0
            THEN /\ win' = "quit"
                 /\ UNCHANGED <<imageVars, hdcMem, hBitmap, gdi>>
            ELSE /\ LoadCurrentImage(dir, 0)
                 /\ win' = IF call'.ret = "true" THEN "open" ELSE "quit"

WmKeyDown ==
  /\ win = "open"
  /\ \E key \in {"VK_RIGHT", "VK_LEFT", "other"} :
       LET n == Len(bmpFiles)
           idx == IF key = "VK_RIGHT" THEN (currentImageIndex + 1) % n
                  ELSE ((currentImageIndex - 1) + n) % n
       IN  IF key = "other"
             THEN UNCHANGED <<imageVars, currentImageIndex, hdcMem, hBitmap, gdi>>
             ELSE /\ currentImageIndex' = idx
                  /\ LoadCurrentImage(bmpFiles, idx)
  /\ UNCHANGED <<bmpFiles, win>>

\* BitBlt(hdc, 0, 0, image.getWidth(), image.getHeight(), hdcMem, 0, 0, SRCCOPY)
BitBltOK(g, dc, w, h) ==
  /\ IsLive(g, dc, "dc")
  /\ IsLive(g, g.obj[dc].sel, "bitmap")
  /\ g.obj[g.obj[dc].sel].w = w
  /\ g.obj[g.obj[dc].sel].h = h

WmPaint ==
  /\ win = "open"
  /\ gdi' = [gdi EXCEPT !.bad =
               IF BitBltOK(gdi, hdcMem, getWidth, getHeight) THEN {} ELSE {"BitBlt"}]
  /\ UNCHANGED <<imageVars, bmpFiles, currentImageIndex, hdcMem, hBitmap, win>>

WmDestroy ==
  /\ win = "open"
  /\ gdi' = DeleteBothDestroy([gdi EXCEPT !.bad = {}], hdcMem, hBitmap)
  /\ win' = "destroyed"
  /\ UNCHANGED <<imageVars, bmpFiles, currentImageIndex, hdcMem, hBitmap>>

NextView == WmCreate \/ WmKeyDown \/ WmPaint \/ WmDestroy

SpecView == Init /\ [][NextView]_vars

----------------------------------------------------------------------------
(* Properties.  call is the last load call: its stream S, what it returned *)
(* and what it did; fileHeader, infoHeader and pixels are the instance      *)
(* after it.                                                               *)

Returned == call.ret # "none"
Succeeded == call.ret = "true"
data == call.S.bytes
rows == call.tr.rows

\* what the stream itself says, where it holds the field
StreamSignature == Take(data, 2)
StreamOffset == U32(Field(data, 10, 4))
StreamBitCount == U16(Field(data, 28, 2))
StreamCompression == U32(Field(data, 30, 4))

\* the smallest multiple of 4 that is >= n
MultipleOf4AtLeast(n) == CHOOSE m \in n..(n + 3) : m % 4 = 0

Pixel(r, x) == pixels[r * getWidth + x + 1]

\* C1: after a successful load with width > 0 and height > 0, the k-th row
\* read from the stream (k = 0 first) is the grid's row height-1-k: the
\* three samples of its pixel x are the row's bytes 3x, 3x+1, 3x+2.
C1_RowOrder ==
  (Succeeded /\ getWidth > 0 /\ getHeight > 0) =>
    /\ Len(rows) = getHeight
    /\ \A k \in 0..(getHeight - 1) : \A x \in 0..(getWidth - 1) :
         LET p == Pixel((getHeight - 1) - k, x)
         IN  <<p.blue, p.green, p.red>> = SubSeq(rows[k + 1], 3 * x + 1, 3 * x + 3)

\* a two-row image whose two stored rows differ was loaded
C1_Witness ==
  /\ Succeeded /\ getWidth > 0 /\ getHeight = 2
  /\ rows[1] # rows[2]
  /\ Pixel(0, 0) # Pixel(1, 0)

\* C2: after a successful load with offsetData >= 54 of a stream that holds
\* all the rows, the k-th row read is the rowBytes bytes of the stream from
\* offset offsetData + k*rowBytes on, rowBytes the smallest multiple of 4
\* that is >= 3*width.
C2_RowLocation ==
  (Succeeded /\ getWidth >= 0 /\ Len(data) >= 54 /\ StreamOffset >= 54) =>
    LET rowBytes == MultipleOf4AtLeast(3 * getWidth)
        absH == Abs(getHeight)
        off == StreamOffset
    IN  Len(data) >= off + absH * rowBytes =>
          /\ Len(rows) = absH
          /\ \A k \in 0..(absH - 1) :
               rows[k + 1] = SubSeq(data, off + k * rowBytes + 1,
                                    off + (k + 1) * rowBytes)

\* two padded rows of width 5 were read from behind a gap
C2_Witness ==
  /\ Succeeded /\ getWidth = 5 /\ getHeight = 2
  /\ StreamOffset > 54
  /\ Len(data) >= StreamOffset + 32
  /\ Len(rows) = 2 /\ rows[2][1] = data[StreamOffset + 17]

\* C3: after a successful load every grid position (r, x) holds blue, green
\* and red equal to bytes 3x, 3x+1 and 3x+2 of the row read for r, and every
\* pixel of the grid has alpha 255.
C3_ChannelMapping ==
  Succeeded =>
    /\ \A i \in 1..Len(pixels) : pixels[i].alpha = 255
    /\ getWidth > 0 =>
         \A r \in 0..(Abs(getHeight) - 1) : \A x \in 0..(getWidth - 1) :
           LET row == rows[Abs(getHeight) - r]
           IN  /\ Pixel(r, x).blue = row[3 * x + 1]
               /\ Pixel(r, x).green = row[3 * x + 2]
               /\ Pixel(r, x).red = row[3 * x + 3]

\* a pixel whose three samples differ was decoded
C3_Witness ==
  /\ Succeeded /\ Len(pixels) > 0
  /\ pixels[1].blue # pixels[1].red
  /\ pixels[1].green # pixels[1].red
  /\ pixels[1].blue # 0

\* C4: whenever load returns true the grid has exactly width * |height|
\* entries, the product taken in the integers.
C4_GridSize ==
  Succeeded =>
    /\ ~MulOverflows(getWidth, Abs(getHeight))
    /\ Len(pixels) = getWidth * Abs(getHeight)

\* C5: a stream that can be opened and does not begin with 'B','M' makes
\* load return false, with at most the 14 header bytes taken from the
\* stream, no seek and no resize of the grid.
C5_SignatureRejection ==
  (Returned /\ call.S.openable /\ StreamSignature # SigBM) =>
    /\ call.ret = "false"
    /\ call.tr.got <= FileHeaderSize
    /\ ~call.tr.seeked
    /\ ~call.tr.resized
    /\ rows = <<>>

\* C6: a stream that begins with 'B','M' and holds a bitCount other than 24
\* or a compression other than 0 makes load return false before the seek
\* and before the grid is resized.
C6_FormatRejection ==
  (/\ Returned /\ call.S.openable /\ StreamSignature = SigBM
   /\ \/ Len(data) >= 30 /\ StreamBitCount # 24
      \/ Len(data) >= 34 /\ StreamCompression # 0) =>
    /\ call.ret = "false"
    /\ ~call.tr.seeked
    /\ ~call.tr.resized
    /\ rows = <<>>

\* a 24-bit compressed file was rejected by an instance holding an image
C6_Witness ==
  /\ call.ret = "false" /\ call.S.openable /\ StreamSignature = SigBM
  /\ Len(data) >= 34 /\ StreamBitCount = 24 /\ StreamCompression # 0
  /\ Len(pixels) > 0

\* the stream ends before its headers or before the rows its headers announce
Truncated ==
  \/ Len(data) < 54
  \/ /\ StreamSignature = SigBM /\ StreamBitCount = 24 /\ StreamCompression = 0
     /\ LET w == I32(Field(data, 18, 4))
            h == I32(Field(data, 22, 4))
        IN  /\ w >= 0 /\ w <= 8 /\ Abs(h) <= 8
            /\ Len(data) < StreamOffset + Abs(h) * MultipleOf4AtLeast(3 * w)

\* C7: load does not return true for a stream that cannot be opened or that
\* ends before the headers and all the rows are read.
C7_Unreadable ==
  (Returned /\ (~call.S.openable \/ Truncated)) => call.ret # "true"

\* C8: the call's result, and on success the width, height and grid, are
\* those of the same call on a freshly constructed instance.
C8_Independence ==
  Returned =>
    LET fresh == Load(FreshImage, call.S, call.ub)
    IN  /\ fresh.ret = call.ret
        /\ Succeeded =>
             /\ width(fresh.infoHeader) = getWidth
             /\ height(fresh.infoHeader) = getHeight
             /\ fresh.pixels = getPixels

\* C9: after any sequence of calls the accessors show one whole image: the
\* grid has width * |height| entries.
C9_WholeImage ==
  /\ ~MulOverflows(getWidth, Abs(getHeight))
  /\ Len(getPixels) = getWidth * Abs(getHeight)

\* C10: no handler deletes a handle that is not live, and BitBlt is given a
\* live memory DC holding a live bitmap made with the width and height
\* passed to BitBlt.
C10_HandleLifecycle == gdi.bad = {}

====
